---- MODULE Spec2Model ----
(***************************************************************************)
(* Model of ks::EventLoop (src/ks/KsEventLoop.cpp).                        *)
(*                                                                         *)
(* The loop owns an asio::io_service (a FIFO handler queue with a stopped  *)
(* flag and a keep-alive work token), a registry of timers and the         *)
(* lifecycle flags m_started / m_running / m_thread_id, which are guarded  *)
(* by m_mutex.  Every section of code that runs under m_mutex is one       *)
(* atomic action.  The io_service run loop does not hold m_mutex: it is    *)
(* modelled one handler at a time, and the timeout handler, which reads    *)
(* the registry entry without the mutex, one statement group at a time.    *)
(* User code (the body of a posted callback or of a timeout slot) is an    *)
(* arbitrary sequence of calls on the loop made while pc[t] = "exec".      *)
(***************************************************************************)
EXTENDS Integers, Sequences, FiniteSets, TLC

\* ---- bounds of the model ------------------------------------------------
NThreads   == 2      \* threads that use the loop
MaxPosts   == 2      \* non-timer work items posted in one behaviour
MaxStarts  == 2      \* effective Start() calls in one behaviour
MaxEntries == 2      \* TimerInfo objects created in one behaviour
NTimers    == 1      \* logical ks::Timer objects
MaxFires   == 2      \* expirations of one TimerInfo's asio_timer
MaxArmed   == 1      \* TimerInfo objects created in one behaviour of SpecFire

Threads   == 1..NThreads
TimerIds  == 1..NTimers
Intervals == {100, 500}

\* std::thread::id() : the id that names no thread
m_thread_id_null == 0

VARIABLES
    m_started,      \* EventLoop::m_started
    m_running,      \* EventLoop::m_running
    m_thread_id,    \* EventLoop::m_thread_id
    m_asio_work,    \* m_impl->m_asio_work != nullptr
    stopped,        \* io_service::stopped()
    queue,          \* handlers posted to the io_service, oldest first
    m_list_timers,  \* EventLoop::m_list_timers : timer id -> TimerInfo (0: none)
    tinfo,          \* the TimerInfo objects ever made, by creation order
    owner,          \* owner[id] : the ks::Timer object still exists
    m_active,       \* Timer::m_active
    pc,             \* where each thread is
    ctx,            \* "run" / "poll" : the io_service call a thread is inside
    cur,            \* the handler a thread is executing
    posted,         \* history: every non-timer item posted, in post order
    fired,          \* history: what the timeout handlers did
    starter,        \* history: the thread whose Start() took effect, until a Stop
    nstarts,        \* history: number of Start() calls that took effect
    seen,           \* history: the number of threads that have called the loop
    last,           \* history: the last step, when it was a Stop or a call that
                    \* threw or did nothing
    thread,         \* the std::thread of LaunchInThread: id, its function's
                    \* thread; by, the caller that holds the handle
    m_mutex         \* EventLoop::m_mutex : the thread that has locked it

loopvars  == <<m_started, m_running, m_thread_id, m_asio_work, stopped>>
starts    == <<starter, nstarts>>
timervars == <<m_list_timers, tinfo, owner, m_active, fired>>
syncvars  == <<thread, m_mutex>>
vars == <<m_started, m_running, m_thread_id, m_asio_work, stopped, queue,
          m_list_timers, tinfo, owner, m_active, pc, ctx, cur, posted, fired,
          starter, nstarts, seen, last, thread, m_mutex>>

NoHandler == [kind |-> "None", id |-> 0, ec |-> "ok"]

\* no std::thread has been launched
NoThread == [id |-> m_thread_id_null, by |-> m_thread_id_null]

\* m_mutex is not locked
Unlocked == m_thread_id_null

\* The queued handlers: "Invoke" (an EventHandler or a TaskHandler: its
\* operator() invokes user code), "Stop" (the bound EventLoop::Stop) and
\* "Timeout" (TimeoutHandler with its error code).
Handler(kind, id, ec) == [kind |-> kind, id |-> id, ec |-> ec]

Init ==
    /\ m_started = FALSE
    /\ m_running = FALSE
    /\ m_thread_id = m_thread_id_null
    /\ m_asio_work = FALSE
    /\ stopped = FALSE
    /\ queue = <<>>
    /\ m_list_timers = [i \in TimerIds |-> 0]
    /\ tinfo = <<>>
    /\ owner = [i \in TimerIds |-> TRUE]
    /\ m_active = [i \in TimerIds |-> FALSE]
    /\ pc = [t \in Threads |-> "idle"]
    /\ ctx = [t \in Threads |-> "none"]
    /\ cur = [t \in Threads |-> NoHandler]
    /\ posted = <<>>
    /\ fired = {}
    /\ starter = m_thread_id_null
    /\ nstarts = 0
    /\ seen = 0
    /\ last = [op |-> "none", res |-> "ok"]
    /\ thread = NoThread
    /\ m_mutex = Unlocked

\* a step of the loop or of the io_service that is no call from outside
Step == last' = [op |-> "none", res |-> "ok"] /\ seen' = seen

\* thread t called op, with outcome res: the exception thrown, "noop" for a
\* Start that returned at once, "again" for a Stop that follows a Stop
Did(op, t, res) ==
    /\ last' = IF res \in {"ok", "none"} /\ op # "Stop"
               THEN [op |-> "none", res |-> "ok"]
               ELSE [op |-> op, res |-> res]
    /\ seen' = IF t > seen THEN t ELSE seen

\* Thread ids are only compared for equality, so the threads are numbered
\* in the order of their first call on the loop.  A thread can call the
\* loop's API from outside the loop or from user code that the loop is
\* executing on it.
CanCall(t) == pc[t] \in {"idle", "exec"} /\ t <= seen + 1

\* faulty variant: the handler goes to the front of the queue
post_front(q, h) == <<h>> \o q

\* io_service::post : the handler goes to the back of the queue
post(q, h) == Append(q, h)

\* ---- lifecycle ------------------------------------------------------------

\* ensureActiveLoop throws EventLoopInactive
ensureActiveLoop == ~(m_started /\ m_asio_work)

\* ensureActiveThread throws EventLoopCalledFromWrongThread
ensureActiveThread(t) == m_thread_id # t

\* faulty variant: the two checks in the other order
EnsureSwapped(t) ==
    IF ensureActiveThread(t) THEN "wrong_thread"
    ELSE IF ensureActiveLoop THEN "inactive" ELSE "none"

\* faulty variant: ensureActiveThread left out
EnsureNoThread(t) == IF ensureActiveLoop THEN "inactive" ELSE "none"

\* the checks at the head of Run and ProcessEvents, in the order of the code
Ensure(t) ==
    IF ensureActiveLoop THEN "inactive"
    ELSE IF ensureActiveThread(t) THEN "wrong_thread" ELSE "none"

\* faulty variant: the calling thread is not recorded
setActiveThreadNot(t) == m_thread_id

\* setActiveThread : m_thread_id = std::this_thread::get_id()
setActiveThread(t) == t

\* faulty variant: the guard tests m_running in place of m_started
StartIfRunning == m_running \/ (m_asio_work /\ ~m_started)

\* Start returns at once: if(m_started || m_impl->m_asio_work) return;
StartIsNoop == m_started \/ m_asio_work

\* the body of Start, under m_mutex
StartBody(t) ==
    IF StartIsNoop
    THEN UNCHANGED <<m_started, m_thread_id, m_asio_work, stopped, starts>>
    ELSE /\ nstarts < MaxStarts
         /\ stopped' = FALSE                 \* m_asio_service.reset()
         /\ m_asio_work' = TRUE              \* new io_service::work
         /\ starter' = t
         /\ nstarts' = nstarts + 1
         /\ m_thread_id' = setActiveThread(t)
         /\ m_started' = TRUE

Start(t) ==
    /\ CanCall(t)
    /\ StartBody(t)
    /\ Did("Start", t, IF StartIsNoop THEN "noop" ELSE "ok")
    /\ UNCHANGED <<m_running, queue, timervars, pc, ctx, cur, posted, syncvars>>

Run(t) ==
    /\ CanCall(t) /\ pc[t] = "idle"
    /\ IF Ensure(t) = "none"
       THEN /\ m_running' = TRUE
            /\ pc' = [pc EXCEPT ![t] = "loop"]
            /\ ctx' = [ctx EXCEPT ![t] = "run"]
       ELSE UNCHANGED <<m_running, pc, ctx>>
    /\ Did("Run", t, Ensure(t))
    /\ UNCHANGED <<m_started, m_thread_id, m_asio_work, stopped, queue,
                   timervars, cur, posted, starts, syncvars>>

ProcessEvents(t) ==
    /\ CanCall(t) /\ pc[t] = "idle"
    /\ IF Ensure(t) = "none"
       THEN /\ pc' = [pc EXCEPT ![t] = "loop"]
            /\ ctx' = [ctx EXCEPT ![t] = "poll"]
       ELSE UNCHANGED <<pc, ctx>>
    /\ Did("ProcessEvents", t, Ensure(t))
    /\ UNCHANGED <<loopvars, queue, timervars, cur, posted, starts, syncvars>>

\* faulty variant: unsetActiveThread left out
StopKeepsThread ==
    /\ m_asio_work' = FALSE
    /\ stopped' = TRUE
    /\ m_thread_id' = m_thread_id
    /\ m_started' = FALSE

\* the body of Stop, under m_mutex
StopBody ==
    /\ m_asio_work' = FALSE                     \* m_asio_work.reset(nullptr)
    /\ stopped' = TRUE                          \* m_asio_service.stop()
    /\ m_thread_id' = m_thread_id_null          \* unsetActiveThread
    /\ m_started' = FALSE

Stop(t) ==
    /\ CanCall(t)
    /\ StopBody
    /\ starter' = m_thread_id_null
    /\ Did("Stop", t, IF last.op = "Stop" THEN "again" ELSE "ok")
    /\ UNCHANGED <<m_running, queue, timervars, pc, ctx, cur, posted, nstarts,
                   syncvars>>

\* Wait / waitUntilStopped : the caller is blocked while m_started, so the
\* call returns in a state where m_started is false
Wait(t) ==
    /\ CanCall(t)
    /\ ~m_started
    /\ Did("Wait", t, "returned")
    /\ UNCHANGED <<loopvars, queue, timervars, pc, ctx, cur, posted, starts,
                   syncvars>>

\* io_service::run() has returned: Run takes the mutex and clears m_running
RunReturn(t) ==
    /\ pc[t] = "ret"
    /\ m_running' = FALSE
    /\ pc' = [pc EXCEPT ![t] = IF t = thread.id THEN "done" ELSE "idle"]
    /\ ctx' = [ctx EXCEPT ![t] = "none"]
    /\ Step
    /\ UNCHANGED <<m_started, m_thread_id, m_asio_work, stopped, queue,
                   timervars, cur, posted, starts, syncvars>>

\* ---- the io_service run loop ---------------------------------------------

InLoop(t) == pc[t] = "loop"

\* a thread is inside a handler that the io_service dispatched to it
Executing(t) == pc[t] \in {"exec", "th_lock", "th_arm", "th_emit"}

\* io_service::run() returns once the service is stopped
RunExit(t) ==
    /\ InLoop(t) /\ ctx[t] = "run"
    /\ stopped
    /\ pc' = [pc EXCEPT ![t] = "ret"]
    /\ Step
    /\ UNCHANGED <<loopvars, queue, timervars, ctx, cur, posted, starts,
                   syncvars>>

\* io_service::poll() returns when stopped or when no handler is ready
PollExit(t) ==
    /\ InLoop(t) /\ ctx[t] = "poll"
    /\ stopped \/ queue = <<>>
    /\ pc' = [pc EXCEPT ![t] = "idle"]
    /\ ctx' = [ctx EXCEPT ![t] = "none"]
    /\ Step
    /\ UNCHANGED <<loopvars, queue, timervars, cur, posted, starts, syncvars>>

\* run()/poll() take the oldest handler while the service is not stopped
Ready(t) == InLoop(t) /\ ~stopped /\ queue # <<>>

\* history: item id is invoked once more
Invoked(id) == [posted EXCEPT ![id].runs = @ + 1]

\* EventHandler::operator() / TaskHandler::operator() : user code starts
DispatchUser(t) ==
    /\ Ready(t)
    /\ Head(queue).kind = "Invoke"
    /\ queue' = Tail(queue)
    /\ cur' = [cur EXCEPT ![t] = Head(queue)]
    /\ pc' = [pc EXCEPT ![t] = "exec"]
    /\ posted' = Invoked(Head(queue).id)
    /\ Step
    /\ UNCHANGED <<loopvars, timervars, ctx, starts, syncvars>>

\* the handler of PostStopEvent : std::bind(&EventLoop::Stop, this)
DispatchStop(t) ==
    /\ Ready(t)
    /\ Head(queue).kind = "Stop"
    /\ queue' = Tail(queue)
    /\ posted' = Invoked(Head(queue).id)
    /\ StopBody
    /\ starter' = m_thread_id_null
    /\ Did("Stop", t, "ok")
    /\ UNCHANGED <<m_running, timervars, pc, ctx, cur, nstarts, syncvars>>

\* the user code of a callback, a task or a timeout slot returns
HandlerReturn(t) ==
    /\ pc[t] = "exec"
    /\ pc' = [pc EXCEPT ![t] = "loop"]
    /\ cur' = [cur EXCEPT ![t] = NoHandler]
    /\ Step
    /\ UNCHANGED <<loopvars, queue, timervars, ctx, posted, starts, syncvars>>

\* ---- posting ----------------------------------------------------------------

\* history of an item: who posted it, whether PostTask invoked it in place,
\* and how many times it has been invoked
Item(t, sync, runs) == [by |-> t, sync |-> sync, runs |-> runs]

\* post a non-timer handler: it gets the next id
Enqueue(kind, t) ==
    /\ Len(posted) < MaxPosts
    /\ posted' = Append(posted, Item(t, FALSE, 0))
    /\ queue' = post(queue, Handler(kind, Len(posted) + 1, "ok"))

PostCallback(t) ==
    /\ CanCall(t)
    /\ Enqueue("Invoke", t)                    \* EventHandler of a SlotEvent
    /\ Did("PostCallback", t, "ok")
    /\ UNCHANGED <<loopvars, timervars, pc, ctx, cur, starts, syncvars>>

PostStopEvent(t) ==
    /\ CanCall(t)
    /\ Enqueue("Stop", t)
    /\ Did("PostStopEvent", t, "ok")
    /\ UNCHANGED <<loopvars, timervars, pc, ctx, cur, starts, syncvars>>

\* PostTask invokes the task in place when the caller is GetThreadId()
TaskInline(t) == t = m_thread_id

PostTask(t) ==
    /\ CanCall(t)
    /\ IF TaskInline(t)
       THEN /\ Len(posted) < MaxPosts
            /\ posted' = Append(posted, Item(t, TRUE, 1))   \* task->Invoke()
            /\ UNCHANGED queue
       ELSE Enqueue("Invoke", t)               \* TaskHandler
    /\ Did("PostTask", t, "ok")
    /\ UNCHANGED <<loopvars, timervars, pc, ctx, cur, starts, syncvars>>

\* ---- LaunchInThread and RemoveFromThread ------------------------------------

\* LaunchInThread: caller c makes the std::thread, whose function runs on the
\* new thread s, and enters waitUntilRunning
LaunchInThread(c, s) ==
    /\ CanCall(c) /\ pc[c] = "idle"
    /\ thread = NoThread
    /\ pc[s] = "idle"
    /\ s = (IF c > seen THEN c ELSE seen) + 1
    /\ thread' = [id |-> s, by |-> m_thread_id_null]
    /\ pc' = [pc EXCEPT ![c] = "launching", ![s] = "thread_start"]
    /\ Did("LaunchInThread", s, "ok")
    /\ UNCHANGED <<loopvars, queue, timervars, ctx, cur, posted, starts, m_mutex>>

\* the thread function: event_loop->Start()
ThreadStart(s) ==
    /\ pc[s] = "thread_start"
    /\ StartBody(s)
    /\ pc' = [pc EXCEPT ![s] = "thread_run"]
    /\ Did("Start", s, IF StartIsNoop THEN "noop" ELSE "ok")
    /\ UNCHANGED <<m_running, queue, timervars, ctx, cur, posted, syncvars>>

\* the thread function: event_loop->Run().  An exception of Run leaves the
\* thread function: std::terminate.
ThreadRun(s) ==
    /\ pc[s] = "thread_run"
    /\ IF Ensure(s) = "none"
       THEN /\ m_running' = TRUE
            /\ pc' = [pc EXCEPT ![s] = "loop"]
            /\ ctx' = [ctx EXCEPT ![s] = "run"]
       ELSE /\ pc' = [pc EXCEPT ![s] = "terminate"]
            /\ UNCHANGED <<m_running, ctx>>
    /\ Did("Run", s, Ensure(s))
    /\ UNCHANGED <<m_started, m_thread_id, m_asio_work, stopped, queue,
                   timervars, cur, posted, starts, syncvars>>

\* waitUntilRunning finds m_running set: LaunchInThread returns the thread
LaunchReturn(c) ==
    /\ pc[c] = "launching"
    /\ m_running
    /\ pc' = [pc EXCEPT ![c] = "idle"]
    /\ thread' = [thread EXCEPT !.by = c]
    /\ Did("LaunchInThread", c, "returned")
    /\ UNCHANGED <<loopvars, queue, timervars, ctx, cur, posted, starts, m_mutex>>

\* RemoveFromThread: PostStopEvent or Stop, then thread.join()
RemoveFromThread(c, post_stop) ==
    /\ CanCall(c) /\ pc[c] = "idle"
    /\ thread.by = c
    /\ IF post_stop
       THEN /\ posted' = Append(posted, Item(c, FALSE, 0))
            /\ queue' = post(queue, Handler("Stop", Len(posted) + 1, "ok"))
            /\ UNCHANGED <<m_started, m_thread_id, m_asio_work, stopped, starter>>
       ELSE /\ StopBody
            /\ starter' = m_thread_id_null
            /\ UNCHANGED <<queue, posted>>
    /\ pc' = [pc EXCEPT ![c] = "joining"]
    /\ Did(IF post_stop THEN "PostStopEvent" ELSE "Stop", c, "ok")
    /\ UNCHANGED <<m_running, timervars, ctx, cur, nstarts, syncvars>>

\* thread.join() returns: the thread function has returned
JoinReturn(c) ==
    /\ pc[c] = "joining"
    /\ pc[thread.id] = "done"
    /\ pc' = [pc EXCEPT ![c] = "idle"]
    /\ thread' = [thread EXCEPT !.by = m_thread_id_null]
    /\ Did("RemoveFromThread", c, "joined")
    /\ UNCHANGED <<loopvars, queue, timervars, ctx, cur, posted, starts, m_mutex>>

\* ---- timers ------------------------------------------------------------------

Event(type, id, interval, repeat) ==
    [type |-> type, id |-> id, interval |-> interval, repeat |-> repeat]

SlotEvents == {Event("Slot", 0, 0, FALSE), Event("BlockingSlot", 0, 0, FALSE)}

TimerEvents ==
    {Event("StartTimer", i, iv, rp) : i \in TimerIds, iv \in Intervals, rp \in BOOLEAN}
        \cup {Event("StopTimer", i, 0, FALSE) : i \in TimerIds}

\* The timer events of one interval: the model never reads the interval.
CadenceEvents == {ev \in TimerEvents : ev.interval \in {0, 100}}

\* a new TimerInfo: asio_timer(service, interval_ms), canceled(false).
\* wait: the asio_timer has an async_wait outstanding.  History: how, the
\* operation that canceled the entry; expired, the expirations of the
\* asio_timer; fires, the timeout handlers that found the entry not canceled
\* and its owner alive; rearms and notifies, what those handlers did;
\* silent, a handler found the owner destroyed.
TimerInfo(id, interval_ms, repeat) ==
    [id |-> id, interval_ms |-> interval_ms, repeat |-> repeat,
     canceled |-> FALSE, wait |-> FALSE, how |-> "none",
     expired |-> 0, fires |-> 0, rearms |-> 0, notifies |-> 0, silent |-> FALSE]

\* asio_timer.cancel() : an outstanding wait completes with operation_aborted
cancel(q, e) ==
    IF tinfo[e].wait THEN post(q, Handler("Timeout", e, "aborted")) ELSE q

\* asio_timer.cancel(); canceled = true
Canceled(ti, e, how) ==
    [ti EXCEPT ![e].wait = FALSE, ![e].canceled = TRUE, ![e].how = how]

startTimer(ev) ==
    IF ~owner[ev.id]
    THEN UNCHANGED <<queue, m_list_timers, tinfo, m_active>>
    ELSE LET old == m_list_timers[ev.id]
             new == Len(tinfo) + 1
             ti  == IF old # 0 THEN Canceled(tinfo, old, "StartTimer") ELSE tinfo
         IN  /\ Len(tinfo) < MaxEntries
             /\ queue' = IF old # 0 THEN cancel(queue, old) ELSE queue
             /\ tinfo' = Append(ti, [TimerInfo(ev.id, ev.interval, ev.repeat)
                                        EXCEPT !.wait = TRUE])
             /\ m_list_timers' = [m_list_timers EXCEPT ![ev.id] = new]
             /\ m_active' = [m_active EXCEPT ![ev.id] = TRUE]

stopTimer(ev) ==
    LET e == m_list_timers[ev.id]
    IN  IF e = 0
        THEN UNCHANGED <<queue, m_list_timers, tinfo, m_active>>
        ELSE /\ m_active' = IF owner[ev.id]
                            THEN [m_active EXCEPT ![ev.id] = FALSE]
                            ELSE m_active
             /\ queue' = cancel(queue, e)
             /\ tinfo' = Canceled(tinfo, e, "StopTimer")
             /\ m_list_timers' = [m_list_timers EXCEPT ![ev.id] = 0]

PostEvent(t, ev) ==
    /\ CanCall(t)
    /\ CASE ev.type = "StartTimer" -> startTimer(ev) /\ UNCHANGED posted
         [] ev.type = "StopTimer"  -> stopTimer(ev) /\ UNCHANGED posted
         [] OTHER -> /\ Enqueue("Invoke", t)    \* EventHandler
                     /\ UNCHANGED <<m_list_timers, tinfo, m_active>>
    /\ Did("PostEvent", t, "ok")
    /\ UNCHANGED <<loopvars, owner, fired, pc, ctx, cur, starts, syncvars>>

\* the interval of an armed asio_timer elapses: its handler becomes ready
Expire(e) ==
    /\ e \in 1..Len(tinfo)
    /\ tinfo[e].wait
    /\ tinfo[e].expired < MaxFires
    /\ tinfo' = [tinfo EXCEPT ![e].wait = FALSE, ![e].expired = @ + 1]
    /\ queue' = post(queue, Handler("Timeout", e, "ok"))
    /\ Step
    /\ UNCHANGED <<loopvars, m_list_timers, owner, m_active, fired, pc, ctx,
                   cur, posted, starts, syncvars>>

\* the threads whose timeout handler holds timer.lock() of timer i
Holding(i) ==
    {t \in Threads : /\ pc[t] \in {"th_arm", "th_emit", "exec"}
                     /\ cur[t].kind = "Timeout"
                     /\ tinfo[cur[t].id].id = i}

\* user code drops the last shared_ptr<Timer>
DestroyTimer(t, i) ==
    /\ CanCall(t)
    /\ owner[i]
    /\ Holding(i) = {}
    /\ owner' = [owner EXCEPT ![i] = FALSE]
    /\ Did("DestroyTimer", t, "ok")
    /\ UNCHANGED <<loopvars, queue, m_list_timers, tinfo, m_active, fired, pc,
                   ctx, cur, posted, starts, syncvars>>

\* TimeoutHandler::operator(), first test: aborted or canceled
TimeoutSkips(h) == h.ec = "aborted" \/ tinfo[h.id].canceled

DispatchTimeout(t) ==
    /\ Ready(t)
    /\ Head(queue).kind = "Timeout"
    /\ queue' = Tail(queue)
    /\ IF TimeoutSkips(Head(queue))
       THEN UNCHANGED <<pc, cur>>
       ELSE /\ pc' = [pc EXCEPT ![t] = "th_lock"]
            /\ cur' = [cur EXCEPT ![t] = Head(queue)]
    /\ Step
    /\ UNCHANGED <<loopvars, timervars, ctx, posted, starts, syncvars>>

\* faulty variant: the entry holds the timer by a strong reference
timer_lock_strong(e) == TRUE

\* m_timerinfo->timer.lock() gives the timer: the ks::Timer still exists
timer_lock(e) == owner[tinfo[e].id]

\* auto timer = m_timerinfo->timer.lock(); if(!timer) return;
TimeoutLock(t) ==
    LET e == cur[t].id
    IN  /\ pc[t] = "th_lock"
        /\ IF timer_lock(e)
           THEN /\ pc' = [pc EXCEPT ![t] = "th_arm"]
                /\ tinfo' = [tinfo EXCEPT ![e].fires = @ + 1]
                /\ UNCHANGED cur
           ELSE /\ pc' = [pc EXCEPT ![t] = "loop"]
                /\ tinfo' = [tinfo EXCEPT ![e].silent = TRUE]
                /\ cur' = [cur EXCEPT ![t] = NoHandler]
        /\ Step
        /\ UNCHANGED <<loopvars, queue, m_list_timers, owner, m_active, fired,
                       ctx, posted, starts, syncvars>>

Fired(e, what) == [e |-> e, what |-> what, after |-> tinfo[e].how]

\* faulty variant: every timer is armed again
RearmsAlways(e) == TRUE

\* if(m_timerinfo->repeat)
Rearms(e) == tinfo[e].repeat

\* re-arm a repeating timer, or mark a one-shot timer inactive
TimeoutArm(t) ==
    LET e == cur[t].id
    IN  /\ pc[t] = "th_arm"
        /\ IF Rearms(e)
           THEN /\ tinfo' = [tinfo EXCEPT ![e].wait = TRUE, ![e].rearms = @ + 1]
                /\ fired' = fired \cup {Fired(e, "rearm")}
                /\ UNCHANGED m_active
           ELSE /\ m_active' = [m_active EXCEPT ![tinfo[e].id] = FALSE]
                /\ UNCHANGED <<tinfo, fired>>
        /\ pc' = [pc EXCEPT ![t] = "th_emit"]
        /\ Step
        /\ UNCHANGED <<loopvars, queue, m_list_timers, owner, ctx, cur, posted, starts,
                       syncvars>>

\* timer->signal_timeout.Emit() : the slots are user code
TimeoutEmit(t) ==
    /\ pc[t] = "th_emit"
    /\ fired' = fired \cup {Fired(cur[t].id, "notify")}
    /\ tinfo' = [tinfo EXCEPT ![cur[t].id].notifies = @ + 1]
    /\ pc' = [pc EXCEPT ![t] = "exec"]
    /\ Step
    /\ UNCHANGED <<loopvars, queue, m_list_timers, owner, m_active, ctx,
                   cur, posted, starts, syncvars>>

\* ---- the critical sections, one lock at a time ------------------------------

\* where a thread is once its call on the loop has returned
Back(t) == IF cur[t] = NoHandler THEN "idle" ELSE "exec"

\* std::lock_guard / std::unique_lock : thread t enters a call that locks
\* m_mutex and gets the mutex, which no thread holds
Lock(t) ==
    /\ CanCall(t)
    /\ m_mutex = Unlocked
    /\ m_mutex' = t
    /\ pc' = [pc EXCEPT ![t] = "locked"]
    /\ Did("lock", t, "none")
    /\ UNCHANGED <<loopvars, queue, timervars, ctx, cur, posted, starts, thread>>

\* thread t is in a critical section
Locked(t) == pc[t] = "locked" /\ m_mutex = t

\* faulty variant: the lock_guard of Run is in the scope of the function
RunScopeWhole == m_mutex

\* Run and ProcessEvents lock in an inner block, which ends before run() /
\* poll() is called
RunScope == Unlocked

LockedStart(t) ==
    /\ Locked(t)
    /\ StartBody(t)
    /\ m_mutex' = Unlocked
    /\ pc' = [pc EXCEPT ![t] = Back(t)]
    /\ Did("Start", t, IF StartIsNoop THEN "noop" ELSE "ok")
    /\ UNCHANGED <<m_running, queue, timervars, ctx, cur, posted, thread>>

LockedStop(t) ==
    /\ Locked(t)
    /\ StopBody
    /\ starter' = m_thread_id_null
    /\ m_mutex' = Unlocked
    /\ pc' = [pc EXCEPT ![t] = Back(t)]
    /\ Did("Stop", t, IF last.op = "Stop" THEN "again" ELSE "ok")
    /\ UNCHANGED <<m_running, queue, timervars, ctx, cur, posted, nstarts, thread>>

LockedGetState(t) ==
    /\ Locked(t)
    /\ m_mutex' = Unlocked
    /\ pc' = [pc EXCEPT ![t] = Back(t)]
    /\ Did("GetState", t, "ok")
    /\ UNCHANGED <<loopvars, queue, timervars, ctx, cur, posted, starts, thread>>

LockedRun(t) ==
    /\ Locked(t) /\ Back(t) = "idle"
    /\ IF Ensure(t) = "none"
       THEN /\ m_running' = TRUE
            /\ pc' = [pc EXCEPT ![t] = "loop"]
            /\ ctx' = [ctx EXCEPT ![t] = "run"]
            /\ m_mutex' = RunScope
       ELSE /\ pc' = [pc EXCEPT ![t] = Back(t)]
            /\ m_mutex' = Unlocked
            /\ UNCHANGED <<m_running, ctx>>
    /\ Did("Run", t, Ensure(t))
    /\ UNCHANGED <<m_started, m_thread_id, m_asio_work, stopped, queue,
                   timervars, cur, posted, starts, thread>>

LockedProcessEvents(t) ==
    /\ Locked(t) /\ Back(t) = "idle"
    /\ IF Ensure(t) = "none"
       THEN /\ pc' = [pc EXCEPT ![t] = "loop"]
            /\ ctx' = [ctx EXCEPT ![t] = "poll"]
            /\ m_mutex' = RunScope
       ELSE /\ pc' = [pc EXCEPT ![t] = Back(t)]
            /\ m_mutex' = Unlocked
            /\ UNCHANGED ctx
    /\ Did("ProcessEvents", t, Ensure(t))
    /\ UNCHANGED <<loopvars, queue, timervars, cur, posted, starts, thread>>

\* PostTask: GetThreadId() returns and gives the mutex back, then the task
\* is invoked in place or posted
LockedGetThreadId(t) ==
    /\ Locked(t)
    /\ m_mutex' = Unlocked
    /\ pc' = [pc EXCEPT ![t] = Back(t)]
    /\ IF Len(posted) = MaxPosts
       THEN UNCHANGED <<queue, posted>>
       ELSE IF TaskInline(t)
            THEN posted' = Append(posted, Item(t, TRUE, 1)) /\ UNCHANGED queue
            ELSE Enqueue("Invoke", t)
    /\ Did("PostTask", t, "ok")
    /\ UNCHANGED <<loopvars, timervars, ctx, cur, starts, thread>>

\* PostEvent of a timer event: startTimer / stopTimer
LockedPostEvent(t, ev) ==
    /\ Locked(t)
    /\ IF ev.type = "StartTimer"
       THEN Len(tinfo) < MaxArmed /\ startTimer(ev)
       ELSE stopTimer(ev)
    /\ m_mutex' = Unlocked
    /\ pc' = [pc EXCEPT ![t] = Back(t)]
    /\ Did("PostEvent", t, "ok")
    /\ UNCHANGED <<loopvars, owner, fired, ctx, cur, posted, starts, thread>>

\* ---- specifications -----------------------------------------------------------

\* The lifecycle and the posted work of a loop without timers.
Next ==
    \/ \E t \in Threads : Start(t)
    \/ \E t \in Threads : Run(t)
    \/ \E t \in Threads : ProcessEvents(t)
    \/ \E t \in Threads : Stop(t)
    \/ \E t \in Threads : RunReturn(t)
    \/ \E t \in Threads : RunExit(t)
    \/ \E t \in Threads : PollExit(t)
    \/ \E t \in Threads : DispatchUser(t)
    \/ \E t \in Threads : DispatchStop(t)
    \/ \E t \in Threads : HandlerReturn(t)
    \/ \E t \in Threads : PostCallback(t)
    \/ \E t \in Threads : PostStopEvent(t)
    \/ \E t \in Threads : PostTask(t)
    \/ \E t \in Threads, ev \in SlotEvents : PostEvent(t, ev)

Spec == Init /\ [][Next]_vars

\* The same loop with threads that keep being scheduled: the system does not
\* halt while a thread can take a step.
SpecFair == Spec /\ WF_vars(Next)

\* The lifecycle calls made from any thread and from inside callbacks, with
\* callbacks as the only posted work.
NextLife ==
    \/ \E t \in Threads : Start(t)
    \/ \E t \in Threads : Run(t)
    \/ \E t \in Threads : ProcessEvents(t)
    \/ \E t \in Threads : Stop(t)
    \/ \E t \in Threads : RunReturn(t)
    \/ \E t \in Threads : RunExit(t)
    \/ \E t \in Threads : PollExit(t)
    \/ \E t \in Threads : DispatchUser(t)
    \/ \E t \in Threads : HandlerReturn(t)
    \/ \E t \in Threads : PostCallback(t)

SpecLife == Init /\ [][NextLife]_vars

\* Shutdown of a running loop with a thread that waits for it.
NextWait ==
    \/ \E t \in Threads : Start(t)
    \/ \E t \in Threads : Run(t)
    \/ \E t \in Threads : Stop(t)
    \/ \E t \in Threads : Wait(t)
    \/ \E t \in Threads : RunReturn(t)
    \/ \E t \in Threads : RunExit(t)
    \/ \E t \in Threads : DispatchUser(t)
    \/ \E t \in Threads : HandlerReturn(t)
    \/ \E t \in Threads : PostCallback(t)

SpecWait == Init /\ [][NextWait]_vars

\* The timers of a loop that is started and pumped; Stop and restart are
\* the subject of Spec.
NextTimer ==
    \/ \E t \in Threads : Start(t)
    \/ \E t \in Threads : Run(t)
    \/ \E t \in Threads : ProcessEvents(t)
    \/ \E t \in Threads : PollExit(t)
    \/ \E t \in Threads : HandlerReturn(t)
    \/ \E t \in Threads, ev \in TimerEvents : PostEvent(t, ev)
    \/ \E e \in 1..MaxEntries : Expire(e)
    \/ \E t \in Threads, i \in TimerIds : DestroyTimer(t, i)
    \/ \E t \in Threads : DispatchTimeout(t)
    \/ \E t \in Threads : TimeoutLock(t)
    \/ \E t \in Threads : TimeoutArm(t)
    \/ \E t \in Threads : TimeoutEmit(t)

SpecTimer == Init /\ [][NextTimer]_vars

\* the steps a thread takes by itself once it is inside a call
Proceed(t) ==
    \/ ThreadStart(t) \/ ThreadRun(t)
    \/ DispatchUser(t) \/ DispatchStop(t) \/ HandlerReturn(t)
    \/ RunExit(t) \/ RunReturn(t)
    \/ LaunchReturn(t) \/ JoinReturn(t)

\* every thread that can proceed is scheduled
Scheduling == \A t \in Threads : WF_vars(Proceed(t))

\* A loop that is launched in a thread of its own while other threads post
\* work and stop requests and call Stop.
NextLaunch ==
    \/ \E c, s \in Threads : ~m_started /\ LaunchInThread(c, s)
    \/ \E t \in Threads : ThreadStart(t)
    \/ \E t \in Threads : ThreadRun(t)
    \/ \E t \in Threads : LaunchReturn(t)
    \/ \E t \in Threads : RemoveFromThread(t, FALSE)
    \/ \E t \in Threads : JoinReturn(t)
    \/ \E t \in Threads : Stop(t)
    \/ \E t \in Threads : PostStopEvent(t)
    \/ \E t \in Threads : PostCallback(t)
    \/ \E t \in Threads : DispatchUser(t)
    \/ \E t \in Threads : DispatchStop(t)
    \/ \E t \in Threads : HandlerReturn(t)
    \/ \E t \in Threads : RunExit(t)
    \/ \E t \in Threads : RunReturn(t)

SpecLaunch == Init /\ [][NextLaunch]_vars /\ Scheduling

\* A loop that is launched in a thread of its own, is given work by any
\* thread and is stopped by RemoveFromThread with post_stop = true alone.
NextShutdown ==
    \/ \E c, s \in Threads : ~m_started /\ LaunchInThread(c, s)
    \/ \E t \in Threads : ThreadStart(t)
    \/ \E t \in Threads : ThreadRun(t)
    \/ \E t \in Threads : LaunchReturn(t)
    \/ \E t \in Threads : RemoveFromThread(t, TRUE)
    \/ \E t \in Threads : JoinReturn(t)
    \/ \E t \in Threads : ProcessEvents(t)
    \/ \E t \in Threads : Wait(t)
    \/ \E t \in Threads : PostCallback(t)
    \/ \E t \in Threads : PostTask(t)
    \/ \E t \in Threads : DispatchUser(t)
    \/ \E t \in Threads : DispatchStop(t)
    \/ \E t \in Threads : HandlerReturn(t)
    \/ \E t \in Threads : RunExit(t)
    \/ \E t \in Threads : RunReturn(t)

SpecShutdown == Init /\ [][NextShutdown]_vars /\ Scheduling

\* The firing of timers on a loop that is started once and that one thread
\* runs.
NextFire ==
    \/ \E t \in Threads : ~m_started /\ Start(t)
    \/ \E t \in Threads : Run(t)
    \/ \E t \in Threads : HandlerReturn(t)
    \/ \E t \in Threads, ev \in CadenceEvents :
          /\ ev.type = "StartTimer" => Len(tinfo) < MaxArmed
          /\ PostEvent(t, ev)
    \/ \E e \in 1..MaxEntries : Expire(e)
    \/ \E t \in Threads, i \in TimerIds : DestroyTimer(t, i)
    \/ \E t \in Threads : DispatchTimeout(t)
    \/ \E t \in Threads : TimeoutLock(t)
    \/ \E t \in Threads : TimeoutArm(t)
    \/ \E t \in Threads : TimeoutEmit(t)

SpecFire == Init /\ [][NextFire]_vars

\* the work given to the loop: the items posted and the timers started
Work == Len(posted) + Len(tinfo)

\* The one-shot timer events.
OneShotEvents == {ev \in CadenceEvents : ~ev.repeat}

\* Every critical section as a lock, a body and an unlock, with the
\* handlers that the io_service dispatches in between.  Run clears m_running
\* under the mutex once run() has returned.  The loop is started once, a
\* Start that follows is the one that returns at once, the timers are
\* one-shot, and the loop is given at most MaxPosts items and timers.
NextMutex ==
    \/ \E t \in Threads : Lock(t)
    \/ \E t \in Threads : (nstarts = 0 \/ StartIsNoop) /\ LockedStart(t)
    \/ \E t \in Threads : LockedStop(t)
    \/ \E t \in Threads : LockedGetState(t)
    \/ \E t \in Threads : LockedRun(t)
    \/ \E t \in Threads : LockedProcessEvents(t)
    \/ \E t \in Threads : Work < MaxPosts /\ LockedGetThreadId(t)
    \/ \E t \in Threads, ev \in OneShotEvents :
          Work < MaxPosts /\ LockedPostEvent(t, ev)
    \/ \E t \in Threads : m_mutex = Unlocked /\ RunReturn(t)
    \/ \E t \in Threads : RunExit(t)
    \/ \E t \in Threads : PollExit(t)
    \/ \E t \in Threads : Work < MaxPosts /\ PostCallback(t)
    \/ \E t \in Threads : DispatchUser(t)
    \/ \E t \in Threads : HandlerReturn(t)
    \/ \E e \in 1..MaxEntries : Expire(e)
    \/ \E t \in Threads : DispatchTimeout(t)
    \/ \E t \in Threads : TimeoutLock(t)
    \/ \E t \in Threads : TimeoutArm(t)
    \/ \E t \in Threads : TimeoutEmit(t)

SpecMutex == Init /\ [][NextMutex]_vars

\* ---- properties ----------------------------------------------------------------

Pump(t) == Run(t) \/ ProcessEvents(t)

\* C1: in every reachable state, a loop that is Running is Started.
C1_RunningImpliesStarted == m_running => m_started

\* C2: a queued work item is dispatched only to the thread that is the
\* owning thread at that moment, and no two threads execute work of the
\* loop at the same time.
C2_SingleConsumer ==
    /\ [](\A t1, t2 \in Threads : Executing(t1) /\ Executing(t2) => t1 = t2)
    /\ [][\A t \in Threads : DispatchUser(t) \/ DispatchStop(t) => m_thread_id = t]_vars

\* C3: while the loop started by thread A is still started, Run or
\* ProcessEvents called by another thread throws the wrong-thread error,
\* executes no queued work and leaves started, running and owning_thread
\* as they were.
C3_ThreadAffinity ==
    [][\A t \in Threads :
        starter \notin {m_thread_id_null, t} /\ Pump(t)
            => /\ last'.res = "wrong_thread"
               /\ UNCHANGED <<m_started, m_running, m_thread_id, queue, posted, pc>>]_vars

C3_Witness ==
    /\ last.op \in {"Run", "ProcessEvents"}
    /\ last.res = "wrong_thread"
    /\ starter # m_thread_id_null
    /\ m_started /\ ~m_running
    /\ queue # <<>>

\* C4: Run or ProcessEvents on a loop that is not started (never started,
\* or stopped since its last Start) throws the inactive-loop error from any
\* thread, executes no queued work and leaves started, running and
\* owning_thread as they were; once the same thread has started the loop,
\* the call succeeds.
C4_InactiveLoop ==
    [][\A t \in Threads :
        /\ starter = m_thread_id_null /\ Pump(t)
            => /\ last'.res = "inactive"
               /\ UNCHANGED <<m_started, m_running, m_thread_id, queue, posted, pc>>
        /\ starter = t /\ Pump(t)
            => /\ last'.op = "none"
               /\ pc'[t] = "loop"]_vars

C4_Witness ==
    /\ last.op \in {"Run", "ProcessEvents"}
    /\ last.res = "inactive"
    /\ nstarts > 0
    /\ ~m_started /\ m_thread_id = m_thread_id_null
    /\ queue # <<>>

\* C5: Start on a loop that is already started, from any thread, changes
\* nothing: started stays true, owning_thread, the reactor (no reset, no new
\* keep-alive token) and the queued work are as they were.
C5_StartIdempotent ==
    [][\A t \in Threads :
        starter # m_thread_id_null /\ Start(t)
            => /\ m_started'
               /\ UNCHANGED <<m_started, m_running, m_thread_id, m_asio_work,
                              stopped, starts, queue, posted>>]_vars

C5_Witness ==
    /\ last.op = "Start" /\ last.res = "noop"
    /\ m_started /\ m_thread_id = starter
    /\ queue # <<>>

\* C6: after any Stop the loop is not started, owning_thread is the null id
\* and the keep-alive token is released; a Stop that directly follows a Stop
\* changes no state of the loop.
C6_StopIdempotent ==
    [][\A t \in Threads :
        /\ Stop(t)
            => ~m_started' /\ m_thread_id' = m_thread_id_null /\ ~m_asio_work'
        /\ last.op = "Stop" /\ Stop(t)
            => UNCHANGED <<loopvars, queue, timervars, pc, ctx, cur, posted, starts>>]_vars

C6_Witness ==
    /\ last.op = "Stop" /\ last.res = "again"
    /\ \E t \in Threads : pc[t] = "exec"
    /\ ~m_started /\ m_thread_id = m_thread_id_null /\ ~m_asio_work

\* the items posted by one thread, the first posted before the second
SameProducer(i, j) == i < j /\ posted[i].by = posted[j].by

\* C7 as stated: of two non-timer items posted by one thread, the one
\* posted first is executed first.
C7_FifoPerProducer ==
    \A i, j \in 1..Len(posted) :
        SameProducer(i, j) /\ posted[j].runs > 0 => posted[i].runs > 0

\* C7 amended: of two non-timer items that one thread posted and that went
\* to the queue (every item but a task that PostTask invoked in place), the
\* one posted first is dispatched first.
C7_FifoQueued ==
    \A i, j \in 1..Len(posted) :
        SameProducer(i, j) /\ ~posted[i].sync /\ ~posted[j].sync /\ posted[j].runs > 0
            => posted[i].runs > 0

C7_Witness ==
    \E i, j \in 1..Len(posted) :
        /\ SameProducer(i, j) /\ ~posted[i].sync /\ ~posted[j].sync
        /\ posted[i].runs = 1 /\ posted[j].runs = 1

\* C8: a PostTask made from inside a callback that the loop is executing
\* invokes the task in place and does not queue it.
C8_TaskFastPath ==
    [][\A t \in Threads :
        PostTask(t) /\ pc[t] = "exec"
            => /\ posted'[Len(posted')] = Item(t, TRUE, 1)
               /\ queue' = queue]_vars

\* C9: the timeout notification of a timer is never invoked after a
\* StopTimer for it has returned.
C9_NoNotifyAfterStopTimer ==
    \A f \in fired : f.what = "notify" => f.after # "StopTimer"

\* the entries of timer i that are not canceled
Live(i) == {e \in 1..Len(tinfo) : tinfo[e].id = i /\ ~tinfo[e].canceled}

\* C10: a StartTimer for an id that has an entry cancels and evicts it, so
\* that the registry holds the one live entry of the id, the newest; after
\* the StartTimer has returned the old entry neither notifies nor is
\* re-armed.
C10_ReplaceOnRestart ==
    /\ \A i \in TimerIds :
          m_list_timers[i] # 0 =>
              /\ Live(i) = {m_list_timers[i]}
              /\ \A e \in 1..Len(tinfo) : tinfo[e].id = i => e <= m_list_timers[i]
    /\ \A f \in fired : f.after # "StartTimer"

\* entry e has invoked its timeout notification
Notified(e) == \E f \in fired : f.e = e /\ f.what = "notify"

\* no timeout handler of entry e is being executed
Completed(e) == \A t \in Threads : ~(Executing(t) /\ cur[t].kind = "Timeout" /\ cur[t].id = e)

\* C11: once the fire callback of a non-repeating timer (not canceled, owner
\* alive) has run to completion, the timer id is absent from the registry
\* and the timer's active flag is false.
C11_OneShotAbsentAfterFire ==
    \A e \in 1..Len(tinfo) :
        (/\ ~tinfo[e].repeat /\ ~tinfo[e].canceled /\ owner[tinfo[e].id]
         /\ Notified(e) /\ Completed(e))
            => /\ m_list_timers[tinfo[e].id] = 0
               /\ ~m_active[tinfo[e].id]

\* C20: whenever the registry holds an entry that is not canceled, whose
\* wait is pending and whose owner exists, the owner's active flag is true.
C20_ActiveFlagConsistent ==
    \A i \in TimerIds :
        LET e == m_list_timers[i]
        IN  e # 0 /\ ~tinfo[e].canceled /\ tinfo[e].wait /\ owner[i]
                => m_active[i]

\* callback or task i waits in the queue
Queued(i) == \E k \in 1..Len(queue) : queue[k].kind = "Invoke" /\ queue[k].id = i

\* item i has not been executed
NotRun(i) == i <= Len(posted) => posted[i].runs = 0

\* C14: a non-timer item that waits in the queue when a Stop has taken
\* effect is never executed afterwards, whatever Start, Run or ProcessEvents
\* follow.
C14_StopDiscardsPending ==
    \A i \in 1..MaxPosts : [](last.op = "Stop" /\ Queued(i) => []NotRun(i))

\* C15: in the state in which a call to Wait returns, the loop is neither
\* Started nor Running and no thread is inside Run.
C15_WaitFullyStopped ==
    last.op = "Wait"
        => /\ ~m_started /\ ~m_running
           /\ \A t \in Threads : ctx[t] # "run"

\* C18: in every state the loop is Started iff owning_thread is not the
\* null id, and iff the keep-alive token is installed.
C18_BookkeepingConsistent ==
    /\ m_started <=> m_thread_id # m_thread_id_null
    /\ m_started <=> m_asio_work

C18_Witness ==
    /\ nstarts > 1 /\ last.op = "none"
    /\ m_started /\ m_asio_work /\ m_thread_id = NThreads
    /\ \E t \in Threads : t # m_thread_id /\ ctx[t] = "run"

\* a thread is at position p of the timeout handler of entry e
At(e, p) == \E t \in Threads : pc[t] = p /\ cur[t].kind = "Timeout" /\ cur[t].id = e

\* C12: every firing of a repeating timer that found the entry not canceled
\* and the owner alive re-arms the entry and then notifies, once each; a
\* non-repeating timer is never re-armed and notifies once in total.
C12_RepeatCadence ==
    \A e \in 1..Len(tinfo) :
        /\ tinfo[e].notifies = tinfo[e].fires - (IF At(e, "th_arm") \/ At(e, "th_emit") THEN 1 ELSE 0)
        /\ tinfo[e].repeat
            => tinfo[e].rearms = tinfo[e].fires - (IF At(e, "th_arm") THEN 1 ELSE 0)
        /\ ~tinfo[e].repeat
            => tinfo[e].rearms = 0 /\ tinfo[e].fires <= 1 /\ ~(tinfo[e].wait /\ tinfo[e].fires = 1)

C12_Witness ==
    \E e \in 1..Len(tinfo) :
        /\ tinfo[e].repeat /\ ~tinfo[e].canceled /\ owner[tinfo[e].id]
        /\ tinfo[e].notifies = 2 /\ tinfo[e].rearms = 2 /\ tinfo[e].wait
        /\ Completed(e)

\* C13: once the owner of a timer is destroyed, a fire of its entry neither
\* notifies nor re-arms, and after that silent fire the entry never fires
\* again; an entry in the registry does not keep the owner from being
\* destroyed.
C13_OrphanedTimer ==
    /\ [](\A e \in 1..Len(tinfo) :
            /\ ~owner[tinfo[e].id]
                => ~(At(e, "th_arm") \/ At(e, "th_emit") \/ At(e, "exec"))
            /\ tinfo[e].silent
                => /\ ~owner[tinfo[e].id] /\ ~tinfo[e].wait
                   /\ \A k \in 1..Len(queue) :
                         ~(queue[k].kind = "Timeout" /\ queue[k].id = e /\ queue[k].ec = "ok"))
    /\ [][\A e \in 1..Len(tinfo) :
            ~owner[tinfo[e].id]
                => /\ tinfo'[e].notifies = tinfo[e].notifies
                   /\ tinfo'[e].rearms = tinfo[e].rearms
                   /\ tinfo'[e].wait => tinfo[e].wait]_vars

C13_Witness ==
    \E e \in 1..Len(tinfo) :
        /\ tinfo[e].silent /\ tinfo[e].repeat /\ tinfo[e].notifies > 0
        /\ m_list_timers[tinfo[e].id] = e /\ ~tinfo[e].canceled
        /\ \E t \in Threads : pc[t] = "loop"

\* C16: a caller of LaunchInThread on a loop that is not started is
\* eventually unblocked, and it is unblocked only after the launched thread
\* has set the loop Running.
C16_LaunchReturns ==
    \A c \in Threads : (pc[c] = "launching") ~> (thread.by = c)

\* callback or task i waits in the queue ahead of a stop request
QueuedBeforeStop(i) ==
    \E k, l \in 1..Len(queue) :
        /\ k < l /\ queue[l].kind = "Stop"
        /\ queue[k].kind = "Invoke" /\ queue[k].id = i

\* the thread function has returned and the loop is stopped
Stopped ==
    /\ thread.id # m_thread_id_null /\ pc[thread.id] = "done"
    /\ ~m_running /\ ~m_started

\* item i has been executed
Ran(i) == i <= Len(posted) /\ posted[i].runs = 1

C19_MutexScopes ==
    /\ \A t \in Threads : m_mutex = t => pc[t] = "locked"
    /\ \A t \in Threads : pc[t] = "locked" => m_mutex = t
    /\ \A t \in Threads : Executing(t) \/ InLoop(t) => m_mutex # t

C19_Witness ==
    \E t \in Threads :
        /\ Locked(t) /\ cur[t].kind = "Timeout"
        /\ m_running /\ Len(posted) > 0

====
